---- MODULE Spec2Model ----
(***************************************************************************)
(* Model of photo_importer: the single-file import pipeline                *)
(* (PhotoImporter.process_file), the run loop (PhotoImporter.run),         *)
(* argument validation and the two entry points (cli.main and              *)
(* PhotoImporter.main), over a small file system.                          *)
(***************************************************************************)
EXTENDS Integers, Sequences, FiniteSets, TLC

\* ------------------------------------------------------------------ bounds
MaxFiles == 3        \* files in the source tree
MaxErrorsArg == 2    \* largest --max-errors value tried
MaxRuns == 2         \* executions of the program in one behaviour (SpecRerun)
MaxCalls == 3        \* calls made on one importer object (SpecApi)
MaxApiFiles == 1     \* files in the source tree under SpecApi and SpecDirect
MaxDirectCalls == 3  \* process_file calls of a direct caller (SpecDirect)
MaxSuffix == 3       \* largest counter of an existing base_k.ext (SpecProbe)

\* ------------------------------------------------------- the environment
NoDate == [year |-> 0, month |-> 0, day |-> 0]
D1 == [year |-> 2024, month |-> 1, day |-> 1]
D2 == [year |-> 2023, month |-> 12, day |-> 25]

\* The files a source tree is built from: base name, extension and the
\* capture date the metadata readers resolve (NoDate: none resolved).
FilePool ==
  { [base |-> "a",   ext |-> ".jpg", date |-> D1],
    [base |-> "a_1", ext |-> ".jpg", date |-> D1],
    [base |-> "a",   ext |-> ".JPG", date |-> D2],
    [base |-> "a",   ext |-> ".jpg", date |-> NoDate],
    [base |-> "a",   ext |-> ".png", date |-> D1] }

SourceTrees == UNION { [1..n -> FilePool] : n \in 0..MaxFiles }

\* paths that --from may name, and what the host file system says of them
SourceArgs == {"/src", "/missing", "/file", "/locked"}
PathExists(p) == p # "/missing"
IsDir(p) == p \in {"/src", "/locked"}
Readable(p) == p # "/locked"
TargetDir == "/target"

ArgSpace ==
  [source_dir : SourceArgs, target_dir : {TargetDir},
   skip_existing : BOOLEAN, overwrite : BOOLEAN,
   max_errors : 0..MaxErrorsArg]

NoConfig == [none |-> TRUE]
Partial == "partial" \* content of a file a failed copy left behind
Old == "old"         \* content of a file that was in the target tree before
ContentOf(i) == "file" \o ToString(i)   \* content of the i-th file of the tree

\* ------------------------------------------------------------ dataclasses
ImportStats == [processed |-> 0, imported |-> 0, skipped |-> 0, errors |-> 0]

ImportConfig(source_dir, target_dir, skip_existing, overwrite, max_errors) ==
  [source_dir |-> source_dir, target_dir |-> target_dir,
   skip_existing |-> skip_existing, overwrite |-> overwrite,
   max_errors |-> max_errors, allowed_extensions |-> {".jpg", ".jpeg", ".raf"}]

\* ------------------------------------------------------------ pure helpers
Lower(ext) ==
  CASE ext = ".JPG" -> ".jpg"
    [] ext = ".JPEG" -> ".jpeg"
    [] ext = ".RAF" -> ".raf"
    [] OTHER -> ext

Pad2(n) == IF n < 10 THEN "0" \o ToString(n) ELSE ToString(n)

Join(a, b) == a \o "/" \o b

\* date_taken.strftime('%Y'), '%m', '%d' joined under the target directory
DestDir(target_dir, date) ==
  Join(Join(Join(target_dir, ToString(date.year)), Pad2(date.month)), Pad2(date.day))

\* as get_date_taken, but a file with no metadata date gets a default date
get_date_taken_Fallback(f) == IF f.date = NoDate THEN D1 ELSE f.date

get_date_taken(f) == f.date

\* os.makedirs + os.access: res is what the host does with the request
create_destination_directory(ds, path, res) ==
  CASE res = "ok"      -> [ok |-> TRUE,  dirs |-> ds \cup {path}]
    [] res = "nowrite" -> [ok |-> FALSE, dirs |-> ds \cup {path}]
    [] OTHER           -> [ok |-> FALSE, dirs |-> ds]

Exists(fs, p) == p \in DOMAIN fs

RECURSIVE Probe(_, _, _, _, _)
Probe(fs, dest_path, base, ext, counter) ==
  IF Exists(fs, dest_path)
    THEN Probe(fs, base \o "_" \o ToString(counter) \o ext, base, ext, counter + 1)
    ELSE dest_path

\* as get_unique_destination_path, but the counter is put after the extension
get_unique_destination_path_AfterExt(fs, base, ext) ==
  IF ~Exists(fs, base \o ext) THEN base \o ext
  ELSE Probe(fs, base \o ext, base \o ext, "", 1)

\* as get_unique_destination_path, but the probing loop is missing
get_unique_destination_path_Same(fs, base, ext) == base \o ext

\* as get_unique_destination_path, but the counter starts at 0
get_unique_destination_path_FromZero(fs, base, ext) ==
  IF ~Exists(fs, base \o ext) THEN base \o ext
  ELSE Probe(fs, base \o ext, base, ext, 0)

\* base is dest_path without its extension (os.path.splitext)
get_unique_destination_path(fs, base, ext) ==
  IF ~Exists(fs, base \o ext) THEN base \o ext
  ELSE Probe(fs, base \o ext, base, ext, 1)

Put(fs, p, c) == [q \in DOMAIN fs \cup {p} |-> IF q = p THEN c ELSE fs[q]]

\* shutil.copy2: res is what the host does with the request
copy_file(fs, content, destination, res) ==
  CASE res = "ok"      -> [ok |-> TRUE,  target |-> Put(fs, destination, content)]
    [] res = "partial" -> [ok |-> FALSE, target |-> Put(fs, destination, Partial)]
    [] OTHER           -> [ok |-> FALSE, target |-> fs]

\* as CountProcessed, but the increment is missing
CountProcessed_Dropped(st) == st

CountProcessed(st) == [st EXCEPT !.processed = @ + 1]

\* as BudgetSpent, but the gate closes only above max_errors
BudgetSpent_Strict(st, cfg) == st.errors > cfg.max_errors

BudgetSpent(st, cfg) == st.errors >= cfg.max_errors

\* as CountError, but the error is not counted
CountError_Dropped(st) == st

CountError(st) == [st EXCEPT !.errors = @ + 1]

\* as WithinBudget, but off by one: the run goes on at errors = max_errors
WithinBudget_OffByOne(st, cfg) == st.errors <= cfg.max_errors

WithinBudget(st, cfg) == st.errors < cfg.max_errors

\* as SkipsExisting, but the skip_existing flag is ignored
SkipsExisting_Never(cfg) == FALSE

SkipsExisting(cfg) == cfg.skip_existing

\* as KeepsPath, but the overwrite flag is ignored
KeepsPath_Never(cfg) == FALSE

\* as KeepsPath, but an existing destination is always written over
KeepsPath_Always(cfg) == TRUE

KeepsPath(cfg) == cfg.overwrite

\* process_file: content is what the source file holds; dirRes and copyRes
\* are the host's answers.  Returns the new stats, file system, the bool
\* process_file returns and the branch taken.
process_file(f, content, cfg, st, fs, ds, dirRes, copyRes) ==
  LET st1 == CountProcessed(st)
      same == [stats |-> st1, target |-> fs, dirs |-> ds]
  IN
  IF BudgetSpent(st1, cfg) THEN same @@ [ret |-> FALSE, outcome |-> "gate"]
  ELSE IF get_date_taken(f) = NoDate THEN same @@ [ret |-> TRUE, outcome |-> "nodate"]
  ELSE
    LET dest_dir == DestDir(cfg.target_dir, get_date_taken(f))
        mk == create_destination_directory(ds, dest_dir, dirRes)
    IN
    IF ~mk.ok THEN
      LET st2 == CountError(st1) IN
      [stats |-> st2, target |-> fs, dirs |-> mk.dirs,
       ret |-> WithinBudget(st2, cfg), outcome |-> "direrr"]
    ELSE
      LET dest_base == Join(dest_dir, f.base)
          dest_path == dest_base \o f.ext
      IN
      IF Exists(fs, dest_path) /\ SkipsExisting(cfg) THEN
        [stats |-> [st1 EXCEPT !.skipped = @ + 1], target |-> fs, dirs |-> mk.dirs,
         ret |-> TRUE, outcome |-> "skip"]
      ELSE
        LET final == IF Exists(fs, dest_path) /\ ~KeepsPath(cfg)
                       THEN get_unique_destination_path(fs, dest_base, f.ext)
                       ELSE dest_path
            cp == copy_file(fs, content, final, copyRes)
        IN
        IF cp.ok THEN
          [stats |-> [st1 EXCEPT !.imported = @ + 1], target |-> cp.target,
           dirs |-> mk.dirs, ret |-> TRUE, outcome |-> "imported"]
        ELSE
          LET st2 == CountError(st1) IN
          [stats |-> st2, target |-> cp.target, dirs |-> mk.dirs,
           ret |-> WithinBudget(st2, cfg), outcome |-> "copyerr"]

\* as validate_arguments, but the two flags are not checked against each other
validate_arguments_NoFlagCheck(args) ==
  IF ~PathExists(args.source_dir) THEN [valid |-> FALSE, config |-> NoConfig]
  ELSE IF ~IsDir(args.source_dir) THEN [valid |-> FALSE, config |-> NoConfig]
  ELSE IF ~Readable(args.source_dir) THEN [valid |-> FALSE, config |-> NoConfig]
  ELSE [valid |-> TRUE,
        config |-> ImportConfig(args.source_dir, args.target_dir,
                                args.skip_existing, args.overwrite, args.max_errors)]

\* validate_arguments: the (valid, config) pair it returns
validate_arguments(args) ==
  IF args.skip_existing /\ args.overwrite THEN [valid |-> FALSE, config |-> NoConfig]
  ELSE IF ~PathExists(args.source_dir) THEN [valid |-> FALSE, config |-> NoConfig]
  ELSE IF ~IsDir(args.source_dir) THEN [valid |-> FALSE, config |-> NoConfig]
  ELSE IF ~Readable(args.source_dir) THEN [valid |-> FALSE, config |-> NoConfig]
  ELSE [valid |-> TRUE,
        config |-> ImportConfig(args.source_dir, args.target_dir,
                                args.skip_existing, args.overwrite, args.max_errors)]

\* indices (positions in the walk of the source tree) of the candidate files
RECURSIVE Candidates(_, _, _)
Candidates(tree, cfg, i) ==
  IF i > Len(tree) THEN << >>
  ELSE IF Lower(tree[i].ext) \in cfg.allowed_extensions
         THEN <<i>> \o Candidates(tree, cfg, i + 1)
         ELSE Candidates(tree, cfg, i + 1)

_get_image_files(tree, cfg) == Candidates(tree, cfg, 1)

\* exit status of the process for what an entry point returns
\* as CliExit, but off by one
CliExit_OffByOne(st, cfg) == IF st.errors <= cfg.max_errors THEN 0 ELSE 1

CliExit(st, cfg) == IF st.errors < cfg.max_errors THEN 0 ELSE 1
CliInvalidExit == 1
MainInvalidExit == 0   \* PhotoImporter.main returns None: the script exits 0
MainExit == 0

\* ------------------------------------------------------------------ state
VARIABLES
  src,        \* the source tree, in walk order
  target,     \* files of the target tree: path -> content
  dirs,       \* directories of the target tree
  config,     \* self.config of the importer object (NoConfig: attribute unset)
  stats,      \* the ImportStats of the current / last run
  files,      \* the list run() iterates, as indices into src
  idx,        \* number of files the loop of run() has visited
  pc,         \* "idle", "loop", "break", "done" (run returned), "exited", "raised"
  entry,      \* who started the current run: "cli", "main", "api", "none"
  exit,       \* exit status of the last entry point, -1 if none returned yet
  args,       \* arguments of the last validate_arguments call
  ret,        \* what the last validate_arguments call returned
  outcome,    \* branch taken by the last process_file call
  hist        \* bookkeeping about the runs (read by the properties only)

vars == <<src, target, dirs, config, stats, files, idx, pc, entry, exit, args,
          ret, outcome, hist>>

NoArgs == [none |-> TRUE]
NoRet == [none |-> TRUE]
EmptyFS == [p \in {} |-> Old]

\* target trees the program may find when it starts
OldDir == DestDir(TargetDir, D1)
InitialTargets == { [p \in S |-> Old] : S \in {{}, {Join(OldDir, "a.jpg")}} }

Hist0 ==
  [runs |-> 1,           \* executions of the program so far
   calls |-> 0,          \* calls made on the importer object
   nodate |-> 0,         \* calls of this run that ended in "nodate"
   gated |-> 0,          \* calls of this run stopped at the entry gate
   attempts |-> 0,       \* calls of this run that got past the entry gate
   aborted |-> FALSE,    \* this run left its loop by break
   prevClean |-> FALSE,  \* an earlier run completed with no error and no abort
   startTarget |-> EmptyFS]  \* target tree when this run started

Init ==
  /\ src \in SourceTrees
  /\ target \in InitialTargets
  /\ dirs = IF DOMAIN target = {} THEN {} ELSE {OldDir}
  /\ config = NoConfig
  /\ stats = ImportStats
  /\ files = << >>
  /\ idx = 0
  /\ pc = "idle"
  /\ entry = "none"
  /\ exit = -1
  /\ args = NoArgs
  /\ ret = NoRet
  /\ outcome = "none"
  /\ hist = Hist0

\* the run that just ended was fully successful
CleanRun == pc = "done" /\ ~hist.aborted /\ stats.errors = 0

\* run(): stats = ImportStats() and the list of image files is taken
BeginRun(cfg, who) ==
  /\ stats' = ImportStats
  /\ files' = _get_image_files(src, cfg)
  /\ idx' = 0
  /\ pc' = "loop"
  /\ entry' = who
  /\ outcome' = "none"
  /\ hist' = [hist EXCEPT !.nodate = 0, !.gated = 0, !.attempts = 0,
                          !.aborted = FALSE, !.startTarget = target,
                          !.calls = IF who = "api" THEN @ + 1 ELSE @]

Refused(who, code) ==
  /\ pc' = "exited"
  /\ entry' = who
  /\ exit' = code
  /\ UNCHANGED <<stats, files, idx, outcome, hist>>

\* cli.main up to the call of run(), on a new PhotoImporter
CliMain(a) ==
  /\ pc = "idle"
  /\ args' = a
  /\ IF a.skip_existing /\ a.overwrite
       THEN /\ Refused("cli", CliInvalidExit)
            /\ UNCHANGED <<config, ret>>
       ELSE LET v == validate_arguments(a) IN
            /\ ret' = v
            /\ IF ~v.valid
                 THEN Refused("cli", CliInvalidExit) /\ UNCHANGED config
                 ELSE BeginRun(v.config, "cli") /\ config' = v.config /\ exit' = -1
  /\ UNCHANGED <<src, target, dirs>>

\* PhotoImporter.main up to the call of run(), on a new PhotoImporter
ImporterMain(a) ==
  /\ pc = "idle"
  /\ args' = a
  /\ LET v == validate_arguments(a) IN
     /\ ret' = v
     /\ IF ~v.valid
          THEN Refused("main", MainInvalidExit) /\ UNCHANGED config
          ELSE BeginRun(v.config, "main") /\ config' = v.config /\ exit' = -1
  /\ UNCHANGED <<src, target, dirs>>

\* one iteration of the loop of run(): process_file on the next file
ProcessFile(dirRes, copyRes) ==
  /\ pc = "loop" /\ idx < Len(files)
  /\ LET i == files[idx + 1]
         r == process_file(src[i], ContentOf(i), config, stats, target, dirs,
                           dirRes, copyRes)
     IN
     /\ stats' = r.stats
     /\ target' = r.target
     /\ dirs' = r.dirs
     /\ outcome' = r.outcome
     /\ idx' = idx + 1
     /\ pc' = IF r.ret THEN "loop" ELSE "break"
     /\ hist' = [hist EXCEPT
                   !.nodate = IF r.outcome = "nodate" THEN @ + 1 ELSE @,
                   !.gated = IF r.outcome = "gate" THEN @ + 1 ELSE @,
                   !.attempts = IF r.outcome # "gate" THEN @ + 1 ELSE @,
                   !.aborted = ~r.ret]
  /\ UNCHANGED <<src, config, files, entry, exit, args, ret>>

\* run() returns stats; the entry point maps them to an exit status
RunReturn ==
  /\ \/ pc = "break"
     \/ pc = "loop" /\ idx = Len(files)
  /\ pc' = "done"
  /\ exit' = CASE entry = "cli" -> CliExit(stats, config)
               [] entry = "main" -> MainExit
               [] OTHER -> -1
  /\ UNCHANGED <<src, target, dirs, config, stats, files, idx, entry, args, ret,
                 outcome, hist>>

DirAnswers == {"ok", "nowrite", "raise"}
CopyAnswers == {"ok", "partial", "fail"}

\* One execution of the program, through either entry point.
Next ==
  \/ \E a \in ArgSpace : CliMain(a)
  \/ \E a \in ArgSpace : ImporterMain(a)
  \/ \E d \in DirAnswers, c \in CopyAnswers : ProcessFile(d, c)
  \/ RunReturn

Spec == Init /\ [][Next]_vars

\* The program is started again on the same source and target trees: a new
\* process, a new PhotoImporter, nothing kept but the file system.
Again ==
  /\ pc \in {"done", "exited"} /\ hist.runs < MaxRuns
  /\ pc' = "idle"
  /\ config' = NoConfig
  /\ stats' = ImportStats
  /\ files' = << >>
  /\ idx' = 0
  /\ entry' = "none"
  /\ exit' = -1
  /\ args' = NoArgs
  /\ ret' = NoRet
  /\ outcome' = "none"
  /\ hist' = [Hist0 EXCEPT !.runs = hist.runs + 1,
                           !.prevClean = hist.prevClean \/ CleanRun]
  /\ UNCHANGED <<src, target, dirs>>

\* Executions of the program one after the other, on a host where directory
\* creation and copying succeed.
NextRerun ==
  \/ \E a \in ArgSpace : CliMain(a)
  \/ \E a \in ArgSpace : ImporterMain(a)
  \/ ProcessFile("ok", "ok")
  \/ RunReturn
  \/ Again

SpecRerun == Init /\ [][NextRerun]_vars

\* a caller that holds a PhotoImporter may call it between runs
CallerFree ==
  /\ pc \in {"idle", "done", "raised"}
  /\ entry \in {"none", "api"}
  /\ hist.calls < MaxCalls

\* importer.validate_arguments(a), called on the importer object
ValidateArguments(a) ==
  /\ CallerFree
  /\ args' = a
  /\ LET v == validate_arguments(a) IN
     /\ ret' = v
     /\ config' = IF v.valid THEN v.config ELSE config
  /\ hist' = [hist EXCEPT !.calls = @ + 1]
  /\ UNCHANGED <<src, target, dirs, stats, files, idx, pc, entry, exit, outcome>>

\* importer.run(), called on the importer object
Run ==
  /\ CallerFree
  /\ IF config = NoConfig
       THEN /\ pc' = "raised"     \* ValueError
            /\ entry' = "api"
            /\ hist' = [hist EXCEPT !.calls = @ + 1]
            /\ UNCHANGED <<stats, files, idx, outcome>>
       ELSE BeginRun(config, "api")
  /\ UNCHANGED <<src, target, dirs, config, exit, args, ret>>

\* One execution of the program, or a caller's sequence of validate_arguments
\* and run calls on one PhotoImporter, on a host where directory creation and
\* copying succeed.
NextApi ==
  \/ \E a \in ArgSpace : CliMain(a)
  \/ \E a \in ArgSpace : ImporterMain(a)
  \/ \E a \in ArgSpace : ValidateArguments(a)
  \/ Run
  \/ ProcessFile("ok", "ok")
  \/ RunReturn

InitApi == Init /\ Len(src) <= MaxApiFiles

SpecApi == InitApi /\ [][NextApi]_vars

\* configs a caller may build with the ImportConfig dataclass itself
DirectConfigs ==
  { ImportConfig("/src", TargetDir, s, o, m) :
      s \in BOOLEAN, o \in BOOLEAN, m \in 0..MaxErrorsArg }

\* a caller builds an ImportConfig and an ImportStats of its own
DirectBegin(cfg) ==
  /\ pc = "idle"
  /\ config' = cfg
  /\ stats' = ImportStats
  /\ files' = << >>
  /\ idx' = 0
  /\ pc' = "loop"
  /\ entry' = "direct"
  /\ outcome' = "none"
  /\ hist' = [hist EXCEPT !.startTarget = target]
  /\ UNCHANGED <<src, target, dirs, exit, args, ret>>

\* the caller calls process_file(file, config, stats) on any file of the tree,
\* whatever the call before returned; files lists the files of the calls
DirectCall(i, dirRes, copyRes) ==
  /\ entry = "direct" /\ pc \in {"loop", "break"}
  /\ idx < MaxDirectCalls
  /\ i \in 1..Len(src)
  /\ LET r == process_file(src[i], ContentOf(i), config, stats, target, dirs,
                           dirRes, copyRes)
     IN
     /\ stats' = r.stats
     /\ target' = r.target
     /\ dirs' = r.dirs
     /\ outcome' = r.outcome
     /\ files' = Append(files, i)
     /\ idx' = idx + 1
     /\ pc' = IF r.ret THEN "loop" ELSE "break"
     /\ hist' = [hist EXCEPT
                   !.nodate = IF r.outcome = "nodate" THEN @ + 1 ELSE @,
                   !.gated = IF r.outcome = "gate" THEN @ + 1 ELSE @,
                   !.attempts = IF r.outcome # "gate" THEN @ + 1 ELSE @,
                   !.aborted = ~r.ret]
  /\ UNCHANGED <<src, config, entry, exit, args, ret>>

\* A caller's own sequence of process_file calls on one config and stats.
NextDirect ==
  \/ \E cfg \in DirectConfigs : DirectBegin(cfg)
  \/ \E i \in 1..MaxFiles, d \in DirAnswers, c \in CopyAnswers : DirectCall(i, d, c)

SpecDirect == InitApi /\ [][NextDirect]_vars

\* dest_path arguments of get_unique_destination_path, split as
\* os.path.splitext splits them, and the files that may exist around them
ProbeBases == {Join(OldDir, "a"), Join(OldDir, "a_1")}
ProbeExts == {".jpg"}
Suffixed(base, ext, k) == base \o "_" \o ToString(k) \o ext
ProbePaths ==
  { b \o e : b \in ProbeBases, e \in ProbeExts }
    \cup { Suffixed(b, e, k) : b \in ProbeBases, e \in ProbeExts, k \in 1..MaxSuffix }
    \cup { Suffixed(b \o e, "", 1) : b \in ProbeBases, e \in ProbeExts }
ProbeTargets == { [p \in S |-> Old] : S \in SUBSET ProbePaths }

InitProbe ==
  /\ src = << >>
  /\ target \in ProbeTargets
  /\ dirs = {OldDir}
  /\ config = NoConfig
  /\ stats = ImportStats
  /\ files = << >>
  /\ idx = 0
  /\ pc = "idle"
  /\ entry = "none"
  /\ exit = -1
  /\ args = NoArgs
  /\ ret = NoRet
  /\ outcome = "none"
  /\ hist = Hist0

\* one call get_unique_destination_path(base + ext); ret keeps the argument
\* and the path returned
UniquePathCall(base, ext) ==
  /\ pc = "idle"
  /\ entry' = "probe"
  /\ ret' = [base |-> base, ext |-> ext,
             unique |-> get_unique_destination_path(target, base, ext)]
  /\ UNCHANGED <<src, target, dirs, config, stats, files, idx, pc, exit, args,
                 outcome, hist>>

NextProbe == \E b \in ProbeBases, e \in ProbeExts : UniquePathCall(b, e)

SpecProbe == InitProbe /\ [][NextProbe]_vars

TypeOK ==
  /\ pc \in {"idle", "loop", "break", "done", "exited", "raised"}
  /\ idx \in 0..Len(files)
  /\ stats.processed \in 0..MaxFiles

\* ------------------------------------------------------------- properties
InRun == pc \in {"loop", "break", "done"}

\* every call of this run that got past the entry gate has failed
AllAttemptsFailed ==
  InRun /\ stats.imported = 0 /\ stats.skipped = 0 /\ hist.nodate = 0

\* C1: in a run with max_errors = N where every attempted file fails, no more
\* than N files are attempted, each attempt counts one error, the run is
\* stopped (process_file returned False) as soon as a call has left
\* errors = N, and a stopped run reports errors = N.
C1_AbortThreshold ==
  AllAttemptsFailed =>
    /\ stats.errors = hist.attempts
    /\ hist.attempts <= config.max_errors
    /\ (stats.errors = config.max_errors /\ idx >= 1) => hist.aborted
    /\ hist.aborted => (stats.errors = config.max_errors /\ pc \in {"break", "done"})

\* a run stopped after exactly N >= 1 failures with a file left unvisited
C1_Witness ==
  /\ AllAttemptsFailed /\ pc = "done" /\ hist.aborted
  /\ config.max_errors >= 1
  /\ stats.errors = config.max_errors /\ hist.attempts = config.max_errors
  /\ idx < Len(files)

\* C2 (as claimed): after every completed process_file call of a run,
\* processed = imported + skipped + (files passed through for missing date)
\* + errors.
C2_AccountingAsClaimed ==
  InRun => stats.processed = stats.imported + stats.skipped + hist.nodate + stats.errors

\* C2 (amended): processed = imported + skipped + (missing date) + errors
\* + (calls stopped at the entry gate); the last term is at most 1 and is
\* 1 only when max_errors = 0.
C2_Accounting ==
  InRun =>
    /\ stats.processed =
         stats.imported + stats.skipped + hist.nodate + stats.errors + hist.gated
    /\ hist.gated <= 1
    /\ hist.gated = 1 => config.max_errors = 0

\* a finished run with an import, an error and a missing date
C2_Witness ==
  /\ pc = "done" /\ stats.imported >= 1 /\ stats.errors >= 1 /\ hist.nodate >= 1

\* number of candidate files of the source tree
NumCandidates ==
  Cardinality({i \in 1..Len(src) : Lower(src[i].ext) \in {".jpg", ".jpeg", ".raf"}})

\* C3: processed equals the number of files the loop of run has visited,
\* whatever their outcomes; at the end of a run that was not aborted it
\* equals the number of candidate files.
C3_ProcessedCountsVisits ==
  InRun =>
    /\ stats.processed = idx
    /\ (pc = "done" /\ ~hist.aborted) => stats.processed = NumCandidates

\* an aborted run that visited the file that stopped it, after an error
C3_Witness ==
  /\ pc = "done" /\ hist.aborted /\ stats.processed >= 2
  /\ stats.errors >= 1 /\ stats.imported >= 1 /\ stats.processed < NumCandidates

\* destination path of a dated file of the tree, and its k-th suffixed variant
DestPathOf(f) == Join(DestDir(TargetDir, f.date), f.base) \o f.ext
SuffixedPathOf(f, k) ==
  Join(DestDir(TargetDir, f.date), f.base) \o "_" \o ToString(k) \o f.ext

\* positions in files of the candidate files that have a capture date
Dated == {k \in 1..Len(files) : src[files[k]].date # NoDate}

\* the run ended with every candidate file visited and no error
RunClean == pc = "done" /\ ~hist.aborted /\ stats.errors = 0

\* a and b (positions in files, a before b) have the same destination path,
\* no other candidate file goes to their destination directory, and neither
\* that path nor its first suffixed variant was in the target tree
SamePathPair(a, b) ==
  /\ a \in Dated /\ b \in Dated /\ a < b
  /\ DestPathOf(src[files[a]]) = DestPathOf(src[files[b]])
  /\ {k \in Dated : src[files[k]].date = src[files[a]].date} = {a, b}
  /\ DestPathOf(src[files[a]]) \notin DOMAIN hist.startTarget
  /\ SuffixedPathOf(src[files[a]], 1) \notin DOMAIN hist.startTarget

\* C5: with neither flag set, after a run without errors, two source files
\* with the same destination path are two files of the target tree: the
\* first at the unsuffixed path, the second at the path suffixed _1, each
\* with its own content, and every dated candidate was imported (2 of 2).
C5_Uniqueness ==
  (RunClean /\ ~config.skip_existing /\ ~config.overwrite) =>
    /\ stats.imported = Cardinality(Dated)
    /\ \A a, b \in Dated :
         SamePathPair(a, b) =>
           LET f == src[files[a]] IN
           /\ DestPathOf(f) # SuffixedPathOf(f, 1)
           /\ DestPathOf(f) \in DOMAIN target
           /\ SuffixedPathOf(f, 1) \in DOMAIN target
           /\ target[DestPathOf(f)] = ContentOf(files[a])
           /\ target[SuffixedPathOf(f, 1)] = ContentOf(files[b])

C5_Witness ==
  /\ RunClean /\ ~config.skip_existing /\ ~config.overwrite
  /\ stats.imported = 2
  /\ \E a, b \in Dated : SamePathPair(a, b)

\* C6: with overwrite set, after a run without errors, each destination
\* path holds the content of the last source file that maps to it, and the
\* run has created no file other than the destination paths themselves
\* (no suffixed variant).
C6_Overwrite ==
  (RunClean /\ config.overwrite) =>
    /\ \A a \in Dated :
         LET p == DestPathOf(src[files[a]])
             last == CHOOSE b \in Dated :
                       /\ DestPathOf(src[files[b]]) = p
                       /\ \A c \in Dated : DestPathOf(src[files[c]]) = p => c <= b
         IN p \in DOMAIN target /\ target[p] = ContentOf(files[last])
    /\ DOMAIN target =
         DOMAIN hist.startTarget \cup {DestPathOf(src[files[a]]) : a \in Dated}

\* the same-named file with the same date was imported twice
C6_Witness ==
  /\ RunClean /\ config.overwrite /\ stats.imported >= 2
  /\ \E a, b \in Dated :
       /\ a < b
       /\ DestPathOf(src[files[a]]) = DestPathOf(src[files[b]])
       /\ target[DestPathOf(src[files[a]])] = ContentOf(files[b])

\* a step of the loop that calls process_file, past the entry gate, on a file
\* whose capture date cannot be resolved
NoDateCall ==
  /\ pc = "loop" /\ idx < Len(files) /\ idx' = idx + 1
  /\ stats.errors < config.max_errors
  /\ src[files[idx + 1]].date = NoDate

\* C8: a process_file call on a file with no resolvable date returns True
\* (the loop goes on), increments processed and nothing else, creates no
\* directory and copies nothing.
C8_NoDatePassThrough ==
  [][NoDateCall =>
       /\ pc' = "loop"
       /\ stats' = [stats EXCEPT !.processed = @ + 1]
       /\ dirs' = dirs
       /\ target' = target]_vars

\* such a call has happened, on a run that had already counted an error
C8_Witness ==
  /\ InRun /\ outcome = "nodate" /\ pc = "loop"
  /\ stats.errors >= 1 /\ hist.nodate >= 1

\* C9 (as claimed): a returned run has errors >= max_errors exactly when it
\* was aborted, and cli.main returns 0 only for completed runs.
C9_EndStateAsClaimed ==
  pc = "done" =>
    /\ (stats.errors >= config.max_errors) <=> hist.aborted
    /\ (entry = "cli" /\ exit = 0) => ~hist.aborted

\* C9 (amended): an aborted run has errors >= max_errors; a completed run
\* has errors < max_errors unless max_errors = 0 and there was no candidate
\* file; cli.main returns 0 exactly when errors < max_errors, so only for
\* completed runs.
C9_EndState ==
  pc = "done" =>
    /\ hist.aborted => stats.errors >= config.max_errors
    /\ (~hist.aborted /\ stats.errors >= config.max_errors) =>
         (config.max_errors = 0 /\ Len(files) = 0)
    /\ entry = "cli" => (exit = 0 <=> stats.errors < config.max_errors)
    /\ (entry = "cli" /\ exit = 0) => ~hist.aborted

\* cli.main has returned 1 for a run aborted at errors = max_errors >= 1
C9_Witness ==
  /\ pc = "done" /\ entry = "cli" /\ hist.aborted /\ exit = 1
  /\ stats.errors = config.max_errors /\ config.max_errors >= 1

InvalidArgs(a) ==
  \/ a.skip_existing /\ a.overwrite
  \/ ~PathExists(a.source_dir)
  \/ ~IsDir(a.source_dir)
  \/ ~Readable(a.source_dir)

\* C10: an entry point called with arguments that fail validation exits
\* with a non-zero status, processes no file and changes no counter and no
\* file of the target tree.
C10_ValidationFatal ==
  [][(pc = "idle" /\ pc' # "idle" /\ InvalidArgs(args')) =>
       /\ pc' = "exited"
       /\ exit' >= 1
       /\ UNCHANGED <<stats, target, dirs, idx>>]_vars

\* the run that just returned had skip_existing set and started on a target
\* tree that an earlier, fully successful import of the same source had filled
RerunDone == pc = "done" /\ hist.prevClean /\ config.skip_existing /\ stats.errors = 0

\* C4 (as claimed): such a re-run imports nothing, skips every file that has
\* a resolvable date, and leaves the target tree as it was.
C4_IdempotenceAsClaimed ==
  RerunDone =>
    /\ stats.imported = 0
    /\ stats.skipped = stats.processed - hist.nodate
    /\ target = hist.startTarget

\* C4 (amended): such a re-run imports nothing and leaves the target tree as
\* it was; when max_errors >= 1 it skips every file that has a resolvable
\* date, and when max_errors = 0 it stops at the first file and skips none.
C4_Idempotence ==
  RerunDone =>
    /\ stats.imported = 0
    /\ target = hist.startTarget
    /\ config.max_errors >= 1 =>
         /\ stats.skipped = stats.processed - hist.nodate
         /\ stats.processed = Len(files)
    /\ config.max_errors = 0 => stats.skipped = 0 /\ stats.processed <= 1

\* a re-run that skipped two files and passed one without a date through
C4_Witness ==
  /\ RerunDone /\ hist.runs >= 2
  /\ stats.skipped >= 2 /\ hist.nodate >= 1
  /\ stats.processed = stats.skipped + hist.nodate

BothFlags(a) == a.skip_existing /\ a.overwrite

\* C7: arguments with both flags set never pass validation: validate_arguments
\* returns (False, None), cli.main exits with 1, the importer's config never
\* has both flags, and so no file is processed under such a config, whatever
\* the sequence of validate_arguments and run calls.
C7_ExclusiveFlags ==
  /\ config # NoConfig => ~BothFlags(config)
  /\ (args # NoArgs /\ BothFlags(args)) =>
       IF entry = "cli" THEN pc = "exited" /\ exit = 1
       ELSE ret = [valid |-> FALSE, config |-> NoConfig]
  /\ (InRun /\ idx >= 1) => ~BothFlags(config)

\* a run that processed a file after a call with both flags had been refused
C7_Witness ==
  /\ entry = "api" /\ pc = "done" /\ idx >= 1
  /\ args # NoArgs /\ BothFlags(args)
  /\ ret = [valid |-> FALSE, config |-> NoConfig]

\* a step that is one process_file call: the file it is called on, and
\* whether the entry gate is closed when it is entered
CallStep == pc \in {"loop", "break"} /\ idx' = idx + 1
CalledFile == src[files'[idx']]
GateClosed == stats.errors >= config.max_errors

\* C11: a process_file call entered with errors >= max_errors returns False
\* and changes nothing but processed (no directory, no copy, imported,
\* skipped and errors as they were); a call entered below the threshold on
\* a dated file that is neither imported nor skipped counts exactly one
\* error, also when that makes errors reach max_errors, and then returns
\* False exactly when errors has reached max_errors.
C11_EntryGate ==
  [][CallStep =>
       /\ GateClosed =>
            /\ pc' = "break"
            /\ stats' = [stats EXCEPT !.processed = @ + 1]
            /\ target' = target
            /\ dirs' = dirs
       /\ (/\ ~GateClosed
           /\ CalledFile.date # NoDate
           /\ stats'.imported = stats.imported
           /\ stats'.skipped = stats.skipped) =>
            /\ stats'.errors = stats.errors + 1
            /\ pc' = "break" <=> stats'.errors >= config.max_errors]_vars

\* a call was stopped at the gate after failures had brought errors to
\* max_errors >= 1
C11_Witness ==
  /\ entry = "direct" /\ outcome = "gate" /\ pc = "break"
  /\ config.max_errors >= 1 /\ stats.errors = config.max_errors
  /\ stats.processed = stats.errors + 1

\* the smallest k >= 1 such that base_k.ext does not exist
SmallestFree(base, ext) ==
  CHOOSE k \in 1..(MaxSuffix + 1) :
    /\ ~Exists(target, Suffixed(base, ext, k))
    /\ \A j \in 1..(k - 1) : Exists(target, Suffixed(base, ext, j))

\* C12: for every set of existing files, get_unique_destination_path(p)
\* returns p when p does not exist and otherwise base_k.ext for the smallest
\* k >= 1 such that base_k.ext does not exist; the path returned does not
\* exist.
C12_UniquePath ==
  entry = "probe" =>
    /\ ~Exists(target, ret.base \o ret.ext) => ret.unique = ret.base \o ret.ext
    /\ Exists(target, ret.base \o ret.ext) =>
         ret.unique = Suffixed(ret.base, ret.ext, SmallestFree(ret.base, ret.ext))
    /\ ~Exists(target, ret.unique)

\* the probe walked past base_1.ext and base_2.ext, which exist, although a
\* later base_k.ext and the counter-after-extension name exist too
C12_Witness ==
  /\ entry = "probe"
  /\ Exists(target, ret.base \o ret.ext)
  /\ Exists(target, Suffixed(ret.base, ret.ext, 1))
  /\ Exists(target, Suffixed(ret.base, ret.ext, 2))
  /\ ~Exists(target, Suffixed(ret.base, ret.ext, 3))
  /\ ret.unique = Suffixed(ret.base, ret.ext, 3)

\* C13: in a process_file call under a config with overwrite = false, every
\* file the target tree holds before the call is there after it with the
\* same content, and a copy (a call that imports, or any call that changes
\* the tree) puts one file at a path that did not exist before the call.
C13_NoClobber ==
  [][(CallStep /\ ~config.overwrite) =>
       /\ \A p \in DOMAIN target :
            p \in DOMAIN target' /\ target'[p] = target[p]
       /\ (stats'.imported # stats.imported \/ target' # target) =>
            Cardinality(DOMAIN target' \ DOMAIN target) = 1]_vars

\* without overwrite and without skip_existing, a file was imported beside
\* an older file of its name, which is still there with its content
C13_Witness ==
  /\ entry = "direct" /\ outcome = "imported"
  /\ ~config.overwrite /\ ~config.skip_existing
  /\ Exists(target, Join(OldDir, "a.jpg"))
  /\ target[Join(OldDir, "a.jpg")] = Old
  /\ Exists(target, Join(OldDir, "a_1.jpg"))
  /\ Exists(hist.startTarget, Join(OldDir, "a.jpg"))

\* files of the target tree, files it held when the run started, and files
\* that a failed copy left behind during the run
NumTargetFiles == Cardinality(DOMAIN target)
NumStartFiles == Cardinality(DOMAIN hist.startTarget)
LeftByFailedCopy ==
  { p \in DOMAIN target \ DOMAIN hist.startTarget : target[p] = Partial }

\* C14 as stated: at the end of a run with overwrite = false the target tree
\* holds the files it held at the start plus stats.imported files.
C14_CountAsClaimed ==
  (pc = "done" /\ ~config.overwrite) =>
    NumTargetFiles = NumStartFiles + stats.imported

\* C14: throughout and at the end of a run with overwrite = false the target
\* tree holds the files it held at the start, plus stats.imported files, plus
\* the files that failed copies left behind, which are at most stats.errors
\* (so exactly start + imported when no failed copy left a file); and a call
\* that ends at the gate, in a skip, a missing date or a directory-creation
\* error leaves the target tree as it was.
C14_Count ==
  /\ []((InRun /\ ~config.overwrite) =>
          /\ NumTargetFiles
               = NumStartFiles + stats.imported + Cardinality(LeftByFailedCopy)
          /\ Cardinality(LeftByFailedCopy) <= stats.errors)
  /\ [][(CallStep /\ ~config.overwrite
           /\ outcome' \in {"gate", "skip", "nodate", "direrr"}) =>
          target' = target]_vars

\* a run without overwrite ended having imported a file beside an older file
\* of its name, counted an error for a copy that left a file behind, and
\* skipped nothing
C14_Witness ==
  /\ pc = "done" /\ ~config.overwrite
  /\ stats.imported >= 1
  /\ Cardinality(LeftByFailedCopy) >= 1
  /\ NumStartFiles >= 1
  /\ NumTargetFiles = NumStartFiles + stats.imported + 1
====
